---- MODULE Spec2Model ----
(***************************************************************************)
(* pywamgr: install / update / remove of add-on packages.                  *)
(* The model follows src/pywamgr.py: update_addon, check_addon,            *)
(* remove_addon and the batch loops of __main__, over a small file system  *)
(* (the install root, one path outside it, and the .cache directory).      *)
(***************************************************************************)
EXTENDS Integers, Sequences, FiniteSets, TLC

\* ------------------------------------------------------------------ bounds
\* how many faults (I/O errors, network errors, process stops) one behaviour has
MaxFaults == 1
\* how many times a file is deleted or altered behind the program's back
MaxTamper == 1

\* ------------------------------------------------------------ the universe
Addons == {"P", "Q"}

\* files and directories the install root (and its parent) can hold
Paths == {"a", "d", "d/c", "../e"}

\* what a path holds: nothing, a directory, or a file with some content
\* ("c0" is the empty content an interrupted write leaves behind)
Contents == {"c0", "c1", "c2"}

\* an archive entry: its name in the zip directory and its content
\* (content "dir" for a directory entry, whose name ends with "/")
Entry(n, c) == [name |-> n, data |-> c]

\* the releases the remote site offers for each addon, oldest first
Releases ==
  [a \in Addons |->
     IF a = "P"
     THEN << [tag |-> "T1",
              arch |-> << Entry("d/", "dir"), Entry("d/c", "c1"),
                          Entry("d/c", "c2") >>],
             [tag |-> "T2",
              arch |-> << Entry("a", "c2"), Entry("d", "c1") >>],
             [tag |-> "T3",
              arch |-> << Entry("a", "c2"), Entry("d", "c1"),
                          Entry("./a", "c1") >>] >>
     ELSE << [tag |-> "T1", arch |-> << Entry("../e", "c1") >>] >>]

\* the batches a command line can name
Batches == {<<"P">>, <<"Q">>, <<"P", "Q">>}

\* ---------------------------------------------------------- path handling
\* the file the operating system resolves addons_dir + name to
Resolve(n) ==
  CASE n = "./a" -> "a"
    [] n = "d/"  -> "d"
    [] OTHER     -> n

\* dirname(addons_dir + name): "d" when the name lies in d, else a directory
\* that always exists (the install root or its parent)
DirnameOf(n) == IF n \in {"d/", "d/c"} THEN "d" ELSE "root"

\* the directory a path lies in
ParentOf(p) == IF p = "d/c" THEN "d" ELSE "root"

\* whether the path lies outside the install root
Outside(p) == p = "../e"

\* os.makedirs(dir) with every exception swallowed
MakeDirs(fs, dir) ==
  IF dir = "d" /\ fs["d"] = "absent" THEN [fs EXCEPT !["d"] = "dir"] ELSE fs

\* os.path.isdir(addons_dir + name)
IsDir(fs, n) == fs[Resolve(n)] = "dir"

\* open(path, 'wb') can succeed: the parent is a directory, and a name with a
\* trailing slash does not name a file
CanOpenForWrite(fs, n) ==
  /\ fs[Resolve(n)] # "dir"
  /\ ParentOf(Resolve(n)) = "d" => fs["d"] = "dir"
  /\ n # "d/"

\* z.open(name): ZipFile looks the name up in NameToInfo, which holds the
\* LAST entry of that name
ZipRead(arch, n) ==
  LET idx == {i \in 1..Len(arch) : arch[i].name = n}
  IN arch[CHOOSE i \in idx : \A j \in idx : j <= i].data

\* hashlib.sha256 of a file content
Hash(c) == <<"sha256", c>>

\* ------------------------------------------------------- persisted manifest
\* the MTREE file of a package: absent, unreadable, or a list of [name, digest]
NoMtree == [st |-> "absent", data |-> <<>>]
TruncMtree == [st |-> "trunc", data |-> <<>>]
OkMtree(m) == [st |-> "ok", data |-> m]

RECURSIVE CheckEntries(_, _)
\* the loop of check_addon: "True", "False", or "Raise" for an OSError that is
\* not FileNotFoundError (the path is a directory, or lies under a file)
CheckEntries(fs, data) ==
  IF data = <<>> THEN "True"
  ELSE LET p == Resolve(data[1][1])
       IN IF fs[p] = "dir" \/ (ParentOf(p) = "d" /\ fs["d"] \in Contents)
          THEN "Raise"
          ELSE IF fs[p] = "absent" THEN "False"
          ELSE IF Hash(fs[p]) # data[1][2] THEN "False"
          ELSE CheckEntries(fs, Tail(data))

\* check_addon(addon, addons_dir)
CheckAddon(fs, mt) ==
  IF mt.st # "ok" THEN "False" ELSE CheckEntries(fs, mt.data)

\* -------------------------------------------------------------- the state
VARIABLES
  disk,        \* Paths -> "absent" | "dir" | a content
  cachedir,    \* Addons -> whether .cache/<addon> exists
  version,     \* Addons -> "nofile" | "" (emptied by open 'w') | a tag
  mtree,       \* Addons -> NoMtree | TruncMtree | OkMtree(list)
  cfgFile,     \* the addons list of ~/.pywamgr.yaml
  srcIdx,      \* Addons -> the release the remote site serves now
  pc,          \* where the process is
  cmd,         \* "install" (install and update share the loop) or "remove"
  queue,       \* the addons of the batch not yet reached by the loop
  cur,         \* the loop variable addon
  cfg,         \* cfg['addons'] in memory
  cfgChanged,  \* cfg_changed
  newVersion,  \* update_addon: new_version
  idx,         \* update_addon: position in z.namelist()
  mt,          \* update_addon: the list mtree under construction
  todo,        \* remove_addon: the entries not yet deleted
  caller,      \* who called remove_addon: "update" or "main"
  faults,      \* faults so far
  tampers,     \* outside changes so far
  batch,       \* history: the batch of the running command
  attempted,   \* history: the addons the loop has reached
  pre,         \* history: the state when the current package operation began
  removed,     \* history: entry names whose os.remove was carried out
  wrote,       \* history: paths opened for writing by this extraction
  branch,      \* history: the path update_addon took through lines 51-69
  stopped      \* history: where and why the process ended before its end

persistent == <<disk, cachedir, version, mtree, cfgFile, srcIdx>>
process == <<pc, cmd, queue, cur, cfg, cfgChanged, newVersion, idx, mt, todo, caller>>
history == <<batch, attempted, pre, removed, wrote, branch, stopped>>
vars == <<disk, cachedir, version, mtree, cfgFile, srcIdx,
          pc, cmd, queue, cur, cfg, cfgChanged, newVersion, idx, mt, todo, caller,
          faults, tampers, batch, attempted, pre, removed, wrote, branch, stopped>>

\* what is on disk: the install root and the cache
Snapshot ==
  [disk |-> disk, cachedir |-> cachedir, version |-> version, mtree |-> mtree]

NoSnapshot ==
  [disk |-> [p \in Paths |-> "absent"], cachedir |-> [a \in Addons |-> FALSE],
   version |-> [a \in Addons |-> "nofile"], mtree |-> [a \in Addons |-> NoMtree]]

Running == [at |-> "none", why |-> "none"]

\* the release get_curse_addon_data finds for the addon
Latest(a) == Releases[a][srcIdx[a]]

Idle == pc \in {"idle", "done", "aborted"}

Init ==
  /\ disk = [p \in Paths |-> "absent"]
  /\ cachedir = [a \in Addons |-> FALSE]
  /\ version = [a \in Addons |-> "nofile"]
  /\ mtree = [a \in Addons |-> NoMtree]
  /\ cfgFile = <<>>
  /\ srcIdx = [a \in Addons |-> 1]
  /\ pc = "idle" /\ cmd = "install" /\ queue = <<>> /\ cur = "none"
  /\ cfg = <<>> /\ cfgChanged = FALSE
  /\ newVersion = "" /\ idx = 1 /\ mt = <<>> /\ todo = <<>> /\ caller = "main"
  /\ faults = 0 /\ tampers = 0
  /\ batch = <<>> /\ attempted = {} /\ pre = NoSnapshot
  /\ removed = {} /\ wrote = {} /\ branch = "none" /\ stopped = Running

\* the locals of update_addon / remove_addon, forgotten when the call is over
ClearLocals ==
  /\ newVersion' = "" /\ idx' = 1 /\ mt' = <<>> /\ todo' = <<>> /\ caller' = "main"
  /\ pre' = NoSnapshot /\ removed' = {} /\ wrote' = {} /\ branch' = "none"
  /\ stopped' = Running

\* the process goes on
Goto(l) == pc' = l /\ UNCHANGED stopped

\* an uncaught exception: the traceback is printed, nothing more runs, and
\* the configuration is not saved
Abort == pc' = "aborted" /\ stopped' = [at |-> pc, why |-> "exception"]

\* the process is stopped from outside
Kill == pc' = "aborted" /\ stopped' = [at |-> pc, why |-> "stop"]

loopvars == <<cmd, queue, cur, cfg, cfgChanged, batch, attempted>>
locals == <<newVersion, idx, mt, todo, caller, pre, removed, wrote, branch>>

\* a fault of the environment: at most MaxFaults of them
Fault == faults < MaxFaults /\ faults' = faults + 1

\* ------------------------------------------------------- __main__, the loops
\* lines 158-184 (install, update) and 193: the command starts with the
\* configuration file loaded
Start(c, b) ==
  /\ Idle
  /\ pc' = "loop" /\ cmd' = c /\ queue' = b /\ cur' = "none"
  /\ cfg' = cfgFile /\ cfgChanged' = FALSE
  /\ batch' = b /\ attempted' = {}
  /\ ClearLocals
  /\ UNCHANGED <<persistent, faults, tampers>>

\* pywamgr.py install <addon>... / update <addon>...
StartInstall == \E b \in Batches : Start("install", b)

\* pywamgr.py update --all
StartUpdateAll == cfgFile # <<>> /\ Start("install", cfgFile)

\* pywamgr.py remove <addon>...
StartRemove == \E b \in Batches : Start("remove", b)

InSeq(x, s) == \E i \in 1..Len(s) : s[i] = x

\* list.remove(x)
SeqRemove(s, x) == SelectSeq(s, LAMBDA y : y # x)

\* lines 186-191: the next addon of an install / update batch
LoopInstall ==
  /\ pc = "loop" /\ cmd = "install" /\ queue # <<>>
  /\ LET a == Head(queue)
     IN /\ cur' = a /\ queue' = Tail(queue)
        /\ cfg' = IF InSeq(a, cfg) THEN cfg ELSE Append(cfg, a)
        /\ cfgChanged' = (cfgChanged \/ ~InSeq(a, cfg))
        /\ attempted' = attempted \cup {a}
  /\ Goto("fetch")
  /\ UNCHANGED <<persistent, cmd, batch, locals, faults, tampers>>

\* lines 194-202: the next addon of a remove batch
LoopRemove ==
  /\ pc = "loop" /\ cmd = "remove" /\ queue # <<>>
  /\ LET a == Head(queue)
     IN /\ cur' = a /\ queue' = Tail(queue)
        /\ attempted' = attempted \cup {a}
        /\ pre' = Snapshot
        /\ IF InSeq(a, cfg)
           THEN /\ cfg' = SeqRemove(cfg, a) /\ cfgChanged' = TRUE
                /\ Goto("remove_open")
           ELSE /\ UNCHANGED <<cfg, cfgChanged>>
                /\ Goto("notinstalled")
  /\ caller' = "main"
  /\ UNCHANGED <<persistent, cmd, batch, newVersion, idx, mt, todo,
                 removed, wrote, branch, faults, tampers>>

\* lines 205-208: the loop is over, the configuration is saved if it changed
SaveConfig ==
  /\ pc = "loop" /\ queue = <<>>
  /\ cfgFile' = IF cfgChanged THEN cfg ELSE cfgFile
  /\ Goto("done")
  /\ UNCHANGED <<disk, cachedir, version, mtree, srcIdx, loopvars, locals,
                 faults, tampers>>

\* the operation on one package is over (lines 58, 103, 200, 203): back to the loop
Continue ==
  /\ pc \in {"uptodate", "finished", "removed", "notinstalled"}
  /\ pc' = "loop"
  /\ ClearLocals
  /\ UNCHANGED <<persistent, loopvars, faults, tampers>>

\* ----------------------------------------------------------- update_addon
\* line 46: get_curse_addon_data answers
GetCurseAddonData ==
  /\ pc = "fetch"
  /\ newVersion' = Latest(cur).tag
  /\ pre' = Snapshot
  /\ Goto("version")
  /\ UNCHANGED <<persistent, loopvars, idx, mt, todo, caller, removed, wrote,
                 branch, faults, tampers>>

\* line 46: requests.get or the page parsing raises
FetchError ==
  /\ pc = "fetch" /\ Fault /\ Abort
  /\ pre' = Snapshot
  /\ UNCHANGED <<persistent, loopvars, newVersion, idx, mt, todo, caller,
                 removed, wrote, branch, tampers>>

\* lines 51-60 with the return of line 58 lost: the package is installed again
\* although it verifies
DecideAlwaysReinstall(v, nv, chk) ==
  IF v = "nofile" THEN "absent"
  ELSE IF v # nv THEN "update"
  ELSE IF chk = "Raise" THEN "except"
  ELSE "broken"

\* lines 51-60: which way update_addon goes, from what VERSION holds (v), the
\* tag of the site (nv) and what check_addon does (chk)
\*   "absent"   open(version_file) raises: the except branch, lines 65-69
\*   "update"   the tags differ: remove_addon, line 62
\*   "uptodate" same tag, check_addon True: return, line 58
\*   "broken"   same tag, check_addon False: remove_addon, line 62
\*   "except"   same tag, check_addon raises OSError: the except branch
Decide(v, nv, chk) ==
  IF v = "nofile" THEN "absent"
  ELSE IF v # nv THEN "update"
  ELSE IF chk = "True" THEN "uptodate"
  ELSE IF chk = "False" THEN "broken"
  ELSE "except"

\* lines 51-60 and 65-69: read VERSION, compare, check_addon
ReadVersion ==
  /\ pc = "version"
  /\ LET b == Decide(version[cur], newVersion, CheckAddon(disk, mtree[cur]))
     IN /\ branch' = b
        /\ Goto(CASE b = "uptodate" -> "uptodate"
                  [] b \in {"update", "broken"} -> "remove_open"
                  [] OTHER -> "wversion")
        /\ cachedir' = IF b = "absent" THEN [cachedir EXCEPT ![cur] = TRUE]
                       ELSE cachedir
  /\ caller' = "update"
  /\ UNCHANGED <<disk, version, mtree, cfgFile, srcIdx, loopvars, newVersion,
                 idx, mt, todo, pre, removed, wrote, faults, tampers>>

\* lines 71-72, first half: open(version_file, 'w') empties the file
OpenVersion ==
  /\ pc = "wversion"
  /\ version' = [version EXCEPT ![cur] = ""]
  /\ Goto("wversion2")
  /\ UNCHANGED <<disk, cachedir, mtree, cfgFile, srcIdx, loopvars, locals,
                 faults, tampers>>

\* lines 71-72, second half: out.write(new_version)
WriteVersion ==
  /\ pc = "wversion2"
  /\ version' = [version EXCEPT ![cur] = newVersion]
  /\ Goto("download")
  /\ UNCHANGED <<disk, cachedir, mtree, cfgFile, srcIdx, loopvars, locals,
                 faults, tampers>>

\* lines 74-77: the archive is downloaded and opened
Download ==
  /\ pc = "download"
  /\ idx' = 1 /\ mt' = <<>>
  /\ Goto("extract")
  /\ UNCHANGED <<persistent, loopvars, newVersion, todo, caller, pre, removed,
                 wrote, branch, faults, tampers>>

\* lines 74-77: the download fails or is no zip file
DownloadError ==
  /\ pc = "download" /\ Fault /\ Abort
  /\ UNCHANGED <<persistent, loopvars, locals, tampers>>

\* the archive update_addon extracts
Arch == Latest(cur).arch

\* lines 78-98: one name of z.namelist()
ExtractEntry ==
  /\ pc = "extract" /\ idx <= Len(Arch)
  /\ LET n == Arch[idx].name
         fs1 == MakeDirs(disk, DirnameOf(n))
         c == ZipRead(Arch, n)
     IN IF IsDir(fs1, n)
        THEN /\ disk' = fs1 /\ idx' = idx + 1 /\ Goto("extract")
             /\ UNCHANGED <<mt, wrote>>
        ELSE IF ~CanOpenForWrite(fs1, n)
        THEN /\ disk' = fs1 /\ Abort
             /\ UNCHANGED <<idx, mt, wrote>>
        ELSE /\ disk' = [fs1 EXCEPT ![Resolve(n)] = c]
             /\ mt' = Append(mt, <<n, Hash(c)>>)
             /\ wrote' = wrote \cup {Resolve(n)}
             /\ idx' = idx + 1 /\ Goto("extract")
  /\ UNCHANGED <<cachedir, version, mtree, cfgFile, srcIdx, loopvars, newVersion,
                 todo, caller, pre, removed, branch, faults, tampers>>

\* line 90: open(path, 'wb') raises (permission denied, read-only disk)
ExtractOpenError ==
  /\ pc = "extract" /\ idx <= Len(Arch)
  /\ LET n == Arch[idx].name
         fs1 == MakeDirs(disk, DirnameOf(n))
     IN /\ ~IsDir(fs1, n) /\ CanOpenForWrite(fs1, n)
        /\ disk' = fs1
  /\ Fault /\ Abort
  /\ UNCHANGED <<cachedir, version, mtree, cfgFile, srcIdx, loopvars, locals, tampers>>

\* lines 91-96: out.write raises (disk full) after open has emptied the file
ExtractWriteError ==
  /\ pc = "extract" /\ idx <= Len(Arch)
  /\ LET n == Arch[idx].name
         fs1 == MakeDirs(disk, DirnameOf(n))
     IN /\ ~IsDir(fs1, n) /\ CanOpenForWrite(fs1, n)
        /\ disk' = [fs1 EXCEPT ![Resolve(n)] = "c0"]
        /\ wrote' = wrote \cup {Resolve(n)}
  /\ Fault /\ Abort
  /\ UNCHANGED <<cachedir, version, mtree, cfgFile, srcIdx, loopvars, newVersion,
                 idx, mt, todo, caller, pre, removed, branch, tampers>>

\* lines 100-101, first half: gzip.open(.., 'wt') empties MTREE
OpenMtree ==
  /\ pc = "extract" /\ idx > Len(Arch)
  /\ mtree' = [mtree EXCEPT ![cur] = TruncMtree]
  /\ Goto("wmtree")
  /\ UNCHANGED <<disk, cachedir, version, cfgFile, srcIdx, loopvars, locals,
                 faults, tampers>>

\* lines 100-101, second half: json.dump(mtree, gz) and close
DumpMtree ==
  /\ pc = "wmtree"
  /\ mtree' = [mtree EXCEPT ![cur] = OkMtree(mt)]
  /\ Goto("finished")
  /\ UNCHANGED <<disk, cachedir, version, cfgFile, srcIdx, loopvars, locals,
                 faults, tampers>>

\* ----------------------------------------------------------- remove_addon
\* remove_addon returns to its caller: line 63 of update_addon, or line 203
ReturnFromRemove == Goto(IF caller = "update" THEN "wversion" ELSE "rmtree")

\* remove_addon raises an OSError other than FileNotFoundError: update_addon
\* catches it at line 65 (os.makedirs fails, is ignored) and goes on with
\* line 71; __main__ does not catch it
RaiseOSErrorFromRemove ==
  IF caller = "update"
  THEN Goto("wversion") /\ branch' = "except"
  ELSE Abort /\ UNCHANGED branch

\* lines 137-139 and 153-155: MTREE is opened and loaded
RemoveOpen ==
  /\ pc = "remove_open"
  /\ CASE mtree[cur].st = "absent" -> ReturnFromRemove /\ todo' = <<>>
       [] mtree[cur].st = "trunc"  -> Abort /\ todo' = <<>>
       [] OTHER                    -> Goto("remove_loop") /\ todo' = mtree[cur].data
  /\ UNCHANGED <<persistent, loopvars, newVersion, idx, mt, caller, pre, removed,
                 wrote, branch, faults, tampers>>

\* os.remove(path) raises something else than FileNotFoundError whatever the
\* permissions are: the path is a directory, or lies under a file
RemoveMustRaise(fs, p) ==
  fs[p] = "dir" \/ (ParentOf(p) = "d" /\ fs["d"] \in Contents)

\* lines 141-145: one entry of the manifest
RemoveEntry ==
  /\ pc = "remove_loop" /\ todo # <<>>
  /\ LET n == todo[1][1]
         p == Resolve(n)
     IN IF RemoveMustRaise(disk, p)
        THEN /\ RaiseOSErrorFromRemove
             /\ UNCHANGED <<disk, todo, removed>>
        ELSE /\ disk' = [disk EXCEPT ![p] = "absent"]
             /\ todo' = Tail(todo)
             /\ removed' = removed \cup {n}
             /\ Goto("remove_loop")
             /\ UNCHANGED branch
  /\ UNCHANGED <<cachedir, version, mtree, cfgFile, srcIdx, loopvars, newVersion,
                 idx, mt, caller, pre, wrote, faults, tampers>>

\* line 143: os.remove raises PermissionError on an existing file
RemoveError ==
  /\ pc = "remove_loop" /\ todo # <<>>
  /\ disk[Resolve(todo[1][1])] \in Contents
  /\ Fault
  /\ RaiseOSErrorFromRemove
  /\ UNCHANGED <<persistent, loopvars, newVersion, idx, mt, todo, caller, pre,
                 removed, wrote, tampers>>

\* lines 147-152: every empty directory under the install root is removed
PruneDirs(fs) ==
  IF fs["d"] = "dir" /\ fs["d/c"] = "absent" THEN [fs EXCEPT !["d"] = "absent"] ELSE fs

RemoveWalk ==
  /\ pc = "remove_loop" /\ todo = <<>>
  /\ disk' = PruneDirs(disk)
  /\ ReturnFromRemove
  /\ UNCHANGED <<cachedir, version, mtree, cfgFile, srcIdx, loopvars, locals,
                 faults, tampers>>

\* a variant of line 203 that removes the whole cache, shutil.rmtree('.cache/')
RmtreeWholeCache ==
  /\ pc = "rmtree"
  /\ IF cachedir[cur]
     THEN /\ cachedir' = [a \in Addons |-> FALSE]
          /\ version' = [a \in Addons |-> "nofile"]
          /\ mtree' = [a \in Addons |-> NoMtree]
          /\ Goto("removed")
     ELSE /\ Abort
          /\ UNCHANGED <<cachedir, version, mtree>>
  /\ UNCHANGED <<disk, cfgFile, srcIdx, loopvars, locals, faults, tampers>>

\* line 203: shutil.rmtree('.cache/' + addon); FileNotFoundError is not caught
Rmtree ==
  /\ pc = "rmtree"
  /\ IF cachedir[cur]
     THEN /\ cachedir' = [cachedir EXCEPT ![cur] = FALSE]
          /\ version' = [version EXCEPT ![cur] = "nofile"]
          /\ mtree' = [mtree EXCEPT ![cur] = NoMtree]
          /\ Goto("removed")
     ELSE /\ Abort
          /\ UNCHANGED <<cachedir, version, mtree>>
  /\ UNCHANGED <<disk, cfgFile, srcIdx, loopvars, locals, faults, tampers>>

\* ------------------------------------------------------------ environment
\* the process is stopped (killed, power loss) wherever it is
Stop ==
  /\ ~Idle /\ Fault /\ Kill
  /\ UNCHANGED <<persistent, loopvars, locals, tampers>>

\* between two runs nothing of the last run is in memory
Forget ==
  /\ pc' = "idle" /\ cmd' = "install" /\ queue' = <<>> /\ cur' = "none"
  /\ cfg' = <<>> /\ cfgChanged' = FALSE /\ batch' = <<>> /\ attempted' = {}
  /\ ClearLocals

\* the remote site publishes the next release of an addon
Release ==
  /\ Idle
  /\ \E a \in Addons :
       /\ srcIdx[a] < Len(Releases[a])
       /\ srcIdx' = [srcIdx EXCEPT ![a] = srcIdx[a] + 1]
  /\ Forget
  /\ UNCHANGED <<disk, cachedir, version, mtree, cfgFile, faults, tampers>>

\* somebody deletes an installed file
TamperDelete ==
  /\ Idle /\ tampers < MaxTamper /\ tampers' = tampers + 1
  /\ \E p \in Paths :
       /\ disk[p] \in Contents
       /\ disk' = [disk EXCEPT ![p] = "absent"]
  /\ Forget
  /\ UNCHANGED <<cachedir, version, mtree, cfgFile, srcIdx, faults>>

\* somebody changes the bytes of an installed file
TamperAlter ==
  /\ Idle /\ tampers < MaxTamper /\ tampers' = tampers + 1
  /\ \E p \in Paths, c \in {"c1", "c2"} :
       /\ disk[p] \in Contents /\ c # disk[p]
       /\ disk' = [disk EXCEPT ![p] = c]
  /\ Forget
  /\ UNCHANGED <<cachedir, version, mtree, cfgFile, srcIdx, faults>>

Next ==
  \/ StartInstall \/ StartUpdateAll \/ StartRemove
  \/ LoopInstall \/ LoopRemove \/ SaveConfig \/ Continue
  \/ GetCurseAddonData \/ FetchError \/ ReadVersion
  \/ OpenVersion \/ WriteVersion \/ Download \/ DownloadError
  \/ ExtractEntry \/ ExtractOpenError \/ ExtractWriteError
  \/ OpenMtree \/ DumpMtree
  \/ RemoveOpen \/ RemoveEntry \/ RemoveError \/ RemoveWalk \/ Rmtree
  \/ Stop \/ Release \/ TamperDelete \/ TamperAlter

Spec == Init /\ [][Next]_vars

TypeOK ==
  /\ disk \in [Paths -> {"absent", "dir"} \cup Contents]
  /\ pc \in {"idle", "done", "aborted", "loop", "fetch", "version", "uptodate",
             "wversion", "wversion2", "download", "extract", "wmtree", "finished",
             "remove_open", "remove_loop", "rmtree", "removed", "notinstalled"}
  /\ disk["d/c"] # "absent" => disk["d"] = "dir"
  /\ \A a \in Addons : (version[a] # "nofile" \/ mtree[a].st # "absent") => cachedir[a]

\* ================================================================ claims
Tags == UNION {{Releases[a][i].tag : i \in DOMAIN Releases[a]} : a \in Addons}

\* the manifest the package had when the current operation on it began
OldEntries == pre.mtree[cur].data

\* the file entries of the archive being installed
FileEntries == {j \in 1..Len(Arch) : Arch[j].data # "dir"}

\* the process ended inside update_addon, at one of these places
StoppedInUpdate(places) ==
  pc = "aborted" /\ cmd = "install" /\ stopped.at \in places

\* C1: whenever update_addon has run to completion and reports the package as
\* installed (line 103), check_addon on that package returns True.
C1_InstalledVerifies ==
  pc = "finished" => CheckAddon(disk, mtree[cur]) = "True"

\* C2: when update_addon ends before the extraction is complete (an exception
\* or a stop), MTREE of the package is as it was and VERSION has not become
\* the tag of this attempt.
C2_NoManifestBeforeExtracted ==
  ( /\ StoppedInUpdate({"version", "remove_open", "remove_loop", "wversion",
                        "wversion2", "download", "extract"})
    /\ ~(stopped.at = "extract" /\ idx > Len(Arch)) )
  => ( /\ mtree[cur] = pre.mtree[cur]
       /\ version[cur] = newVersion => pre.version[cur] = newVersion )

\* C3: when a batch ends, normally or by the failure of one package (an
\* exception, not a stop of the process), every package of the batch has
\* been attempted.
C3_BatchNeverAborted ==
  (pc = "done" \/ (pc = "aborted" /\ stopped.why = "exception"))
  => attempted = {batch[i] : i \in 1..Len(batch)}

\* C4: an update_addon that begins with the manifest present, VERSION equal to
\* the tag of the site and one listed file missing or altered, and that runs to
\* its end, has not taken the package for up to date, has carried out os.remove
\* for every entry of the old manifest, has extracted the archive (line 103
\* is reached), and leaves check_addon True.
C4_CorruptionRecovery ==
  ( /\ pc \in {"uptodate", "finished"}
    /\ pre.mtree[cur].st = "ok"
    /\ pre.version[cur] = newVersion
    /\ CheckAddon(pre.disk, pre.mtree[cur]) = "False" )
  => ( /\ pc = "finished"
       /\ \A i \in DOMAIN OldEntries : OldEntries[i][1] \in removed
       /\ CheckAddon(disk, mtree[cur]) = "True" )

\* C5: update_addon on a package whose VERSION equals the tag of the site and
\* whose files all verify takes the return of line 58, and nothing on disk
\* (installed files, MTREE, VERSION, cache directories) differs from before.
C5_UpToDateIsNoOp ==
  ( /\ cmd = "install" /\ branch # "none"
    /\ pre.version[cur] = newVersion
    /\ CheckAddon(pre.disk, pre.mtree[cur]) = "True" )
  => (branch = "uptodate" /\ Snapshot = pre)

\* C5 witness: an installed package with files was found up to date
C5_Witness ==
  /\ pc = "uptodate" /\ Len(OldEntries) >= 2
  /\ \E p \in Paths : disk[p] \in Contents

\* C6: after a remove request for a package (tracked or not, with a readable
\* MTREE or with none), the package has no MTREE and no file of its former
\* manifest exists.
C6_RemovalComplete ==
  (pc \in {"removed", "notinstalled"} /\ pre.mtree[cur].st # "trunc")
  => ( /\ mtree[cur].st = "absent"
       /\ \A i \in DOMAIN OldEntries : disk[Resolve(OldEntries[i][1])] = "absent" )

\* C7: after an update_addon that ran to its end on a package installed with
\* another tag: the old files that are not in the new archive are gone, every
\* file of the new archive exists with the digest MTREE records for it, MTREE
\* lists only files of the new archive, and VERSION is the new tag.
C7_UpdateReplacesFiles ==
  ( /\ pc = "finished"
    /\ pre.mtree[cur].st = "ok"
    /\ pre.version[cur] \in Tags /\ pre.version[cur] # newVersion )
  => ( /\ \A i \in DOMAIN OldEntries :
            (\A j \in FileEntries : Resolve(Arch[j].name) # Resolve(OldEntries[i][1]))
            => disk[Resolve(OldEntries[i][1])] = "absent"
       /\ \A j \in FileEntries :
            /\ disk[Resolve(Arch[j].name)] \in Contents
            /\ \E k \in DOMAIN mtree[cur].data : mtree[cur].data[k][1] = Arch[j].name
            /\ \A k \in DOMAIN mtree[cur].data :
                 mtree[cur].data[k][1] = Arch[j].name
                 => mtree[cur].data[k][2] = Hash(disk[Resolve(Arch[j].name)])
       /\ \A k \in DOMAIN mtree[cur].data :
            \E j \in FileEntries : Arch[j].name = mtree[cur].data[k][1]
       /\ version[cur] = newVersion )

\* C8: no file is ever written outside the install root, and an archive with
\* an entry that resolves outside the install root is never reported installed.
C8_PathTraversalRejected ==
  /\ \A p \in Paths : Outside(p) => disk[p] = "absent"
  /\ pc = "finished" => \A j \in 1..Len(Arch) : ~Outside(Resolve(Arch[j].name))

\* C9: when the process is stopped while VERSION and MTREE are being replaced,
\* the two files are either both as before, or both complete and new.
C9_ManifestSaveAtomic ==
  ( /\ StoppedInUpdate({"wversion2", "download", "extract", "wmtree"})
    /\ stopped.why = "stop" )
  => \/ (version[cur] = pre.version[cur] /\ mtree[cur] = pre.mtree[cur])
     \/ ( /\ version[cur] = newVersion /\ idx > Len(Arch)
          /\ mtree[cur] = OkMtree(mt) )

\* C10: once update_addon has written a file of the new archive, os.remove has
\* been carried out for every entry of the old manifest; with no manifest
\* nothing has been removed.
C10_RemoveBeforeExtract ==
  (cmd = "install" /\ wrote # {})
  => IF pre.mtree[cur].st = "ok"
     THEN \A i \in DOMAIN OldEntries : OldEntries[i][1] \in removed
     ELSE removed = {}

\* C11: when os.remove has failed on one entry of the old manifest for another
\* reason than a missing file, os.remove is still carried out for every other
\* listed file, and update_addon goes on to the extraction instead of ending.
\* (todo[1] is the entry the loop of remove_addon was left at.)
C11_BestEffortRemoval ==
  (cmd = "install" /\ caller = "update" /\ todo # <<>> /\ pc # "remove_loop")
  => /\ ~(pc = "aborted" /\ stopped.at = "remove_loop" /\ stopped.why = "exception")
     /\ \A i \in DOMAIN OldEntries :
          Resolve(OldEntries[i][1]) # Resolve(todo[1][1])
            => OldEntries[i][1] \in removed

\* C12: a persisted MTREE that cannot be read is treated like an absent one:
\* the next update_addon does not end with an exception because of it, does
\* not report "up-to-date", and when it has finished MTREE is readable and
\* check_addon returns True.
C12_UnreadableManifestAsAbsent ==
  (cmd = "install" /\ cur \in Addons /\ branch # "none" /\ pre.mtree[cur].st = "trunc")
  => /\ ~(pc = "aborted" /\ stopped.why = "exception"
            /\ stopped.at \in {"version", "remove_open", "remove_loop"})
     /\ pc # "uptodate"
     /\ pc = "finished" => (mtree[cur].st = "ok" /\ CheckAddon(disk, mtree[cur]) = "True")

\* C13: a remove request for a tracked package ends without an exception when
\* listed files, the MTREE or the cache directory of the package are missing,
\* and after the run no package of the request is in the saved configuration.
C13_RemoveToleratesMissing ==
  /\ ~(cmd = "remove" /\ pc = "aborted" /\ stopped.why = "exception"
         /\ stopped.at = "rmtree")
  /\ (cmd = "remove" /\ pc = "done")
       => \A i \in DOMAIN batch : ~InSeq(batch[i], cfgFile)

\* what a complete extraction of an archive leaves at a path: the data of the
\* last file entry whose name resolves to it
LastEntryAt(arch, p) ==
  LET js == {j \in 1..Len(arch) : arch[j].data # "dir" /\ Resolve(arch[j].name) = p}
  IN CHOOSE j \in js : \A k \in js : k <= j

\* C14: update_addon reports "up-to-date" only when every file entry of the
\* archive of the source's current tag is on disk with that archive's content
\* (also after an earlier update to that tag has failed during extraction).
C14_UpToDateMeansCurrentContent ==
  pc = "uptodate"
  => \A j \in FileEntries :
       LET p == Resolve(Arch[j].name)
       IN disk[p] = Arch[LastEntryAt(Arch, p)].data

\* C15: after a run that ended normally or with an exception, every package
\* that has a persisted MTREE is in the saved configuration.
C15_ManifestImpliesTracked ==
  (pc = "done" \/ (pc = "aborted" /\ stopped.why = "exception"))
  => \A a \in Addons : mtree[a].st # "absent" => InSeq(a, cfgFile)

\* the places of one package operation (update_addon, or remove_addon and
\* rmtree), from the first statement after its start to its end
OpPlaces == {"version", "uptodate", "wversion", "wversion2", "download", "extract",
             "wmtree", "finished", "remove_open", "remove_loop", "rmtree",
             "removed", "notinstalled"}

\* an operation on the package cur is under way, has ended, or was cut short
InOperation == pc \in OpPlaces \/ (pc = "aborted" /\ stopped.at \in OpPlaces)

\* the files a manifest lists
ManifestPaths(m) == {Resolve(m.data[i][1]) : i \in DOMAIN m.data}

\* the files an operation on package a can write or delete: those of its
\* manifest and those of the archive the site serves
OwnPaths(a) ==
  ManifestPaths(pre.mtree[a])
    \cup {Resolve(Latest(a).arch[j].name) :
            j \in {k \in DOMAIN Latest(a).arch : Latest(a).arch[k].data # "dir"}}

\* two path sets are disjoint: no common path, and none lies in a directory
\* named by a path of the other set
DisjointPaths(S, T) ==
  \A s \in S, t \in T : s # t /\ ParentOf(s) # t /\ ParentOf(t) # s

\* C16: an install, update or remove of package cur leaves VERSION, MTREE and
\* every manifest-listed file of any other package q as they were when the
\* operation began, provided the file paths of the two packages are disjoint;
\* so check_addon(q) gives the same result before and after.
C16_Frame ==
  InOperation
  => \A q \in Addons \ {cur} :
       DisjointPaths(OwnPaths(cur), ManifestPaths(pre.mtree[q]))
       => /\ version[q] = pre.version[q]
          /\ mtree[q] = pre.mtree[q]
          /\ cachedir[q] = pre.cachedir[q]
          /\ \A p \in ManifestPaths(pre.mtree[q]) : disk[p] = pre.disk[p]
          /\ CheckAddon(disk, mtree[q]) = CheckAddon(pre.disk, pre.mtree[q])

\* P has been removed (files deleted, cache directory gone) while Q is installed
C16_Witness ==
  /\ pc = "removed" /\ cur = "P" /\ removed # {}
  /\ pre.mtree["P"].st = "ok" /\ mtree["P"].st = "absent"
  /\ mtree["Q"].st = "ok" /\ CheckAddon(disk, mtree["Q"]) = "True"

\* C17: in every persisted, readable MTREE the entry paths are pairwise
\* distinct, whatever the archive (also one that repeats an entry name).
C17_ManifestPathsDistinct ==
  \A a \in Addons :
    mtree[a].st = "ok"
    => \A i, j \in DOMAIN mtree[a].data :
         i # j => mtree[a].data[i][1] # mtree[a].data[j][1]

\* the names of the file entries of an archive, in the order of z.namelist()
FileNames(arch) ==
  LET fe == SelectSeq(arch, LAMBDA e : e.data # "dir")
  IN [i \in DOMAIN fe |-> fe[i].name]

\* C18: the manifest a completed extraction wrote has exactly one entry per
\* file entry of the archive, in the order of the archive, and none for a
\* directory entry, whatever was on disk when the extraction ran.
C18_ManifestMatchesArchive ==
  pc = "finished"
  => /\ mtree[cur].st = "ok"
     /\ [i \in DOMAIN mtree[cur].data |-> mtree[cur].data[i][1]] = FileNames(Arch)

\* the manifest can be loaded and every entry names an existing file whose
\* digest equals the recorded one
AllEntriesMatch(fs, m) ==
  /\ m.st = "ok"
  /\ \A i \in DOMAIN m.data :
       LET p == Resolve(m.data[i][1])
       IN fs[p] \in Contents /\ Hash(fs[p]) = m.data[i][2]

\* C19: where update_addon calls check_addon (line 56, the tags being equal),
\* check_addon returns True exactly when the manifest can be loaded and every
\* entry's file exists with the recorded digest, and returns False otherwise
\* (at the first missing or mismatching entry); when it has returned (lines
\* 57-62), no file, MTREE or VERSION has changed.
C19_CheckAddonExactReadOnly ==
  /\ (pc = "version" /\ version[cur] = newVersion)
       => CheckAddon(disk, mtree[cur]) =
            IF AllEntriesMatch(disk, mtree[cur]) THEN "True" ELSE "False"
  /\ (cmd = "install" /\ branch \in {"uptodate", "broken"}
        /\ pc \in {"uptodate", "remove_open"})
       => Snapshot = pre

====
